---- MODULE Spec2Model ----
(***************************************************************************)
(* A model of voltdbclient/conn.go: the VoltConn connection object, its    *)
(* open/close lifecycle, the two handle registries and DrainAll.           *)
(*                                                                         *)
(* Every method of VoltConn has a VALUE receiver (func (vc VoltConn) ...): *)
(* the method body works on a copy of the struct.  Assignments to fields   *)
(* of vc inside a method are lost on return; writes through the map        *)
(* references vc.execs / vc.queries reach the shared map objects.          *)
(***************************************************************************)
EXTENDS Integers, Sequences, FiniteSets, TLC

\* Several next-state relations are used.  Next is the lifecycle:
\* construction, Close, Prepare and the registry operations.  DrainNext is a
\* constructed connection with the registry operations, the listener and
\* DrainAll interleaved; Close assigns nothing the caller's struct or the
\* maps keep, so the drain is studied from the state a successful OpenConn
\* leaves.  RegistryNext is the registry operations with the start of a
\* drain, RaceNext the drain with the callers' map statements taking time,
\* TeardownNext the drain with Close called on the connection.

\* ------------------------------------------------------------------ bounds
MaxHandle == 2
MaxRecv == 2
MaxCloseCalls == 2

Handles == 1..MaxHandle
\* VoltQueryResult objects; one is allocated per issued query
Receivers == 1..MaxRecv

\* the nil *VoltQueryResult a map lookup yields for an absent key
NilQuery == 0
\* the nil exec channel a map lookup yields for an absent key
NilChan == 0

\* reply frames a server can send: hostId, connId, leaderAddr, buildString
LoginReplies == { <<1, 7, 1, "v6">>, <<2, 9, 1, "v7">> }

\* the nil *connectionData
NilConnData == [nil |-> TRUE]

\* what a delivery channel can hand to reflect.Select: a driver.Rows, an
\* interface value that is no driver.Rows, a value whose kind is no interface
Payloads == {"rows", "notRows", "notInterface"}

\* the exec channels callers register
ExecChans == {1}

VARIABLES
    made,            \* a *VoltConn has been constructed
    vc,              \* the VoltConn struct the caller holds
    execs,           \* the map object behind vc.execs
    queries,         \* the map object behind vc.queries
    mapWrite,        \* the map statement a caller is in the middle of
    sock,            \* the dialled TCP stream: "none", "open", "closed"
    tcpCloseCalls,   \* number of tcpConn.Close() invocations
    closeCalls,      \* number of VoltConn.Close() calls that returned
    listenerStarts,  \* number of netListener.start() invocations
    leaked,          \* dialled streams no object refers to and nobody closed
    openLog,         \* outcome of each step of the last OpenConn
    openRet,         \* what the last OpenConn returned
    closeRet,        \* what the last Close returned
    prepareRet,      \* what the last Prepare returned
    regAfterClose,   \* what the last registry operation made after a Close did
    crash,           \* "none", or the panic that ended the process
    nextRecv,        \* next VoltQueryResult to allocate
    chan,            \* state of each VoltQueryResult's delivery channel
    results,         \* rows / err fields of each VoltQueryResult
    drainPc,         \* DrainAll: "idle", "running", "returned"
    snapshot,        \* vc.queries as it was when DrainAll was called
    handles,         \* DrainAll's local slice
    cases,           \* DrainAll's local slice (the channel of each case)
    finishedQueries, \* DrainAll's output slice
    finishedHandles, \* the handle selected for each output entry
    lastSelect       \* what the last reflect.Select returned

connVars == <<made, vc, sock, tcpCloseCalls, closeCalls, listenerStarts, leaked,
              openLog, openRet, closeRet, prepareRet>>
regVars == <<execs, queries, mapWrite, regAfterClose, nextRecv>>
chanVars == <<chan>>
drainVars == <<results, drainPc, snapshot, handles, cases, finishedQueries,
               finishedHandles, lastSelect>>
vars == <<connVars, regVars, chanVars, drainVars, crash>>

\* ------------------------------------------------------------ the struct
ZeroConn ==
    [reader |-> "nil", writer |-> "nil", connData |-> NilConnData,
     netListener |-> "nil", isOpen |-> FALSE]

EmptyExecs == [h \in Handles |-> NilChan]
EmptyQueries == [h \in Handles |-> NilQuery]

NoLog == [resolve |-> "skipped", dial |-> "skipped", login |-> "skipped",
          write |-> "skipped", read |-> "skipped", reply |-> NilConnData]
NoPrepare == [ret |-> "none", afterClose |-> FALSE]
NoWrite == [op |-> "none", handle |-> 0]
NoSelect == [handle |-> 0, recv |-> 0, ok |-> FALSE, val |-> "none",
             chosenQuery |-> NilQuery]

\* newVoltConn: the struct it returns.  The connData parameter is never
\* stored: no statement of the constructor assigns vc.connData.
newVoltConn(reader, writer, connData) ==
    [reader |-> reader, writer |-> writer, connData |-> NilConnData,
     netListener |-> "listener", isOpen |-> TRUE]

\* what the caller's struct is after a method with a value receiver ran on
\* a copy of it and left the copy as `after`
ValueReceiver(before, after) == before

\* the copy Close works on, after lines 68-71
CloseAssignments(c) ==
    [c EXCEPT !.reader = "nil", !.writer = "nil", !.connData = NilConnData,
              !.isOpen = FALSE]

Init ==
    /\ made = FALSE
    /\ vc = ZeroConn
    /\ execs = EmptyExecs
    /\ queries = EmptyQueries
    /\ sock = "none"
    /\ tcpCloseCalls = 0
    /\ closeCalls = 0
    /\ listenerStarts = 0
    /\ leaked = 0
    /\ openLog = NoLog
    /\ openRet = "none"
    /\ closeRet = "none"
    /\ prepareRet = NoPrepare
    /\ regAfterClose = "none"
    /\ mapWrite = NoWrite
    /\ crash = "none"
    /\ nextRecv = 1
    /\ chan = [r \in Receivers |-> "pending"]
    /\ results = [r \in Receivers |-> [rows |-> "unset", err |-> "nil"]]
    /\ drainPc = "idle"
    /\ snapshot = EmptyQueries
    /\ handles = <<>>
    /\ cases = <<>>
    /\ finishedQueries = <<>>
    /\ finishedHandles = <<>>
    /\ lastSelect = NoSelect

Alive == crash = "none"

\* --------------------------------------------------------------- OpenConn
\* readLoginResponse: the connectionData decoded from the reply frame
readLoginResponse(frame) ==
    [hostId |-> frame[1], connId |-> frame[2], leaderAddr |-> frame[3],
     buildString |-> frame[4]]

\* the ways the steps of one OpenConn call can turn out; a step after the
\* one that made OpenConn return is "skipped"
OpenOutcomes ==
    { [NoLog EXCEPT !.resolve = "fail"],
      [NoLog EXCEPT !.resolve = "ok", !.dial = "fail"],
      [NoLog EXCEPT !.resolve = "ok", !.dial = "ok", !.login = "fail"] }
    \cup
    { [NoLog EXCEPT !.resolve = "ok", !.dial = "ok", !.login = "ok",
                    !.write = w, !.read = "fail"] : w \in {"ok", "fail"} }
    \cup
    { [resolve |-> "ok", dial |-> "ok", login |-> "ok", write |-> w,
       read |-> "ok", reply |-> readLoginResponse(f)] :
         w \in {"ok", "fail"}, f \in LoginReplies }

\* OpenConn's early returns.  writeLoginMessage is called as a statement:
\* nothing it reports is looked at.
OpenConnReturns(o) ==
    IF o.resolve # "ok" THEN "error"
    ELSE IF o.dial # "ok" THEN "error"
    ELSE IF o.login # "ok" THEN "error"
    ELSE IF o.read # "ok" THEN "error"
    ELSE "conn"

OpenConn(o) ==
    /\ Alive
    /\ ~made
    /\ openRet = "none"
    /\ openLog' = o
    /\ openRet' = OpenConnReturns(o)
    /\ IF OpenConnReturns(o) = "conn"
       THEN /\ vc' = newVoltConn("tcp", "tcp", o.reply)
            /\ made' = TRUE
            /\ sock' = "open"
            /\ listenerStarts' = listenerStarts + 1
            /\ leaked' = leaked
       ELSE \* no error path closes the stream DialTCP returned
            /\ leaked' = IF o.dial = "ok" THEN leaked + 1 ELSE leaked
            /\ UNCHANGED <<vc, made, sock, listenerStarts>>
    /\ UNCHANGED <<tcpCloseCalls, closeCalls, closeRet, prepareRet>>
    /\ UNCHANGED <<regVars, chanVars, drainVars, crash>>

\* newVoltConn called directly with any io.Reader (nil, a TCP stream, or
\* another reader such as a buffer)
NewVoltConn(reader) ==
    /\ Alive
    /\ ~made
    /\ openRet = "none"
    /\ vc' = newVoltConn(reader, reader, NilConnData)
    /\ made' = TRUE
    /\ sock' = IF reader = "tcp" THEN "open" ELSE sock
    /\ listenerStarts' = listenerStarts + 1
    /\ UNCHANGED <<tcpCloseCalls, closeCalls, leaked, openLog,
                   openRet, closeRet, prepareRet>>
    /\ UNCHANGED <<regVars, chanVars, drainVars, crash>>

\* ------------------------------------------------------------------ Close
\* vc.reader.(*net.TCPConn): a single-value type assertion panics when the
\* dynamic type is another one
AssertTCPConn(reader) == IF reader = "tcp" THEN "ok" ELSE "panic"

Close(streamErr) ==
    /\ Alive
    /\ made
    /\ closeCalls < MaxCloseCalls
    /\ IF vc.reader # "nil"
       THEN IF AssertTCPConn(vc.reader) = "panic"
            THEN /\ crash' = "typeAssertion"
                 /\ UNCHANGED <<vc, sock, tcpCloseCalls, closeCalls, closeRet>>
            ELSE /\ tcpCloseCalls' = tcpCloseCalls + 1
                 /\ sock' = "closed"
                 \* closing a stream that is already closed is an error
                 /\ closeRet' = IF sock = "closed" \/ streamErr
                                 THEN "error" ELSE "nil"
                 /\ vc' = ValueReceiver(vc, CloseAssignments(vc))
                 /\ closeCalls' = closeCalls + 1
                 /\ crash' = crash
       ELSE /\ closeRet' = "nil"
            /\ vc' = ValueReceiver(vc, CloseAssignments(vc))
            /\ closeCalls' = closeCalls + 1
            /\ UNCHANGED <<sock, tcpCloseCalls, crash>>
    /\ UNCHANGED <<made, listenerStarts, leaked, openLog,
                   openRet, prepareRet>>
    /\ UNCHANGED <<regVars, chanVars, drainVars>>

\* ---------------------------------------------------------------- Prepare
PrepareReturns(c) == IF ~c.isOpen THEN "error" ELSE "stmt"

Prepare ==
    /\ Alive
    /\ made
    /\ prepareRet' = [ret |-> PrepareReturns(vc), afterClose |-> closeCalls > 0]
    /\ UNCHANGED <<made, vc, sock, tcpCloseCalls, closeCalls, listenerStarts,
                   leaked, openLog, openRet, closeRet>>
    /\ UNCHANGED <<regVars, chanVars, drainVars, crash>>

\* --------------------------------------------------------------- registry
\* a write that lands in a copy of the mapping and is lost with it
registerQueryOnCopy(m, handle, vcr) == m

registerExec(m, handle, c) == [m EXCEPT ![handle] = c]
registerQuery(m, handle, vcr) == [m EXCEPT ![handle] = vcr]
removeQuery(m, han) == [m EXCEPT ![han] = NilQuery]

\* "none" while no Close has returned; after one, whether the operation
\* changed a mapping
AfterClose(changed) ==
    IF closeCalls = 0 THEN "none"
    ELSE IF changed THEN "changed" ELSE "unchanged"

RegisterExec(handle, c) ==
    /\ Alive
    /\ made
    /\ execs' = registerExec(execs, handle, c)
    /\ regAfterClose' = AfterClose(execs' # execs)
    /\ mapWrite' = NoWrite
    /\ UNCHANGED <<queries, nextRecv>>
    /\ UNCHANGED <<connVars, chanVars, drainVars, crash>>

\* every issued query brings its own new VoltQueryResult
RegisterQuery(handle) ==
    /\ Alive
    /\ made
    /\ nextRecv <= MaxRecv
    /\ queries' = registerQuery(queries, handle, nextRecv)
    /\ nextRecv' = nextRecv + 1
    /\ regAfterClose' = AfterClose(queries' # queries)
    /\ mapWrite' = NoWrite
    /\ UNCHANGED execs
    /\ UNCHANGED <<connVars, chanVars, drainVars, crash>>

RemoveQuery(han) ==
    /\ Alive
    /\ made
    /\ queries' = removeQuery(queries, han)
    /\ regAfterClose' = AfterClose(queries' # queries)
    /\ mapWrite' = NoWrite
    /\ UNCHANGED <<execs, nextRecv>>
    /\ UNCHANGED <<connVars, chanVars, drainVars, crash>>

\* --------------------------------------------------------------- listener
\* the Response Listener hands a value to a query's channel, or closes it
Deliver(r, p) ==
    /\ Alive
    /\ r < nextRecv
    /\ chan[r] = "pending"
    /\ chan' = [chan EXCEPT ![r] = p]
    /\ UNCHANGED <<connVars, regVars, drainVars, crash>>

CloseChannel(r) ==
    /\ Alive
    /\ r < nextRecv
    /\ chan[r] \in {"pending", "taken"}
    /\ chan' = [chan EXCEPT ![r] = "closed"]
    /\ UNCHANGED <<connVars, regVars, drainVars, crash>>

\* --------------------------------------------------------------- DrainAll
\* the setters of VoltQueryResult
setError(res, q, e) == [res EXCEPT ![q].err = e]
setRows(res, q, rows) == [res EXCEPT ![q].rows = rows]

\* all orders in which `range vc.queries` can visit the keys
Orders(S) ==
    { o \in [1..Cardinality(S) -> S] :
        \A i, j \in 1..Cardinality(S) : i # j => o[i] # o[j] }

Registered(m) == { h \in Handles : m[h] # NilQuery }

\* a receive case of reflect.Select can be chosen
Ready(r) == chan[r] \in Payloads \cup {"closed"}

\* a removal that forgets the swap and only truncates the slice
RemoveChosenNoSwap(s, chosen) == SubSeq(s, 1, Len(s) - 1)

\* lines 122-127: s[chosen] = s[len(s)-1]; s = s[:len(s)-1]
RemoveChosen(s, chosen) ==
    [i \in 1..(Len(s) - 1) |-> IF i = chosen THEN s[Len(s)] ELSE s[i]]

\* lines 132-145: what DrainAll records on chosenQuery
Finalize(res, q, ok, val) ==
    IF ~ok
    THEN setError(res, q, "channel closed")
    ELSE IF val = "notInterface"
         THEN setError(res, q, "not an interface")
         ELSE LET isRows == val = "rows"
                  res1 == IF ~isRows
                          THEN setError(res, q, "not driver.Rows")
                          ELSE res
              IN  setRows(res1, q, IF isRows THEN "rows" ELSE "nilRows")

\* lines 106-116
DrainAll(order) ==
    /\ Alive
    /\ made
    /\ drainPc \in {"idle", "returned"}
    /\ drainPc' = "running"
    /\ snapshot' = queries
    /\ handles' = order
    /\ cases' = [i \in 1..Len(order) |-> queries[order[i]]]
    /\ finishedQueries' = <<>>
    /\ finishedHandles' = <<>>
    /\ lastSelect' = NoSelect
    /\ UNCHANGED results
    /\ UNCHANGED <<connVars, regVars, chanVars, crash>>

\* one turn of the loop, lines 118-147
DrainSelect(chosen) ==
    /\ Alive
    /\ drainPc = "running"
    /\ Len(handles) > 0
    /\ chosen \in 1..Len(cases)
    /\ Ready(cases[chosen])
    /\ LET handle == handles[chosen]
           recv == cases[chosen]
           ok == chan[recv] # "closed"
           val == chan[recv]
           chosenQuery == queries[handle]
       IN  /\ chan' = IF ok THEN [chan EXCEPT ![recv] = "taken"] ELSE chan
           /\ handles' = RemoveChosen(handles, chosen)
           /\ cases' = RemoveChosen(cases, chosen)
           /\ lastSelect' = [handle |-> handle, recv |-> recv, ok |-> ok,
                             val |-> val, chosenQuery |-> chosenQuery]
           /\ IF chosenQuery = NilQuery
              THEN \* a setter is called on a nil *VoltQueryResult
                   /\ crash' = "nilQuery"
                   /\ UNCHANGED <<results, finishedQueries, finishedHandles>>
              ELSE /\ results' = Finalize(results, chosenQuery, ok, val)
                   /\ finishedQueries' = Append(finishedQueries, chosenQuery)
                   /\ finishedHandles' = Append(finishedHandles, handle)
                   /\ crash' = crash
    /\ UNCHANGED <<drainPc, snapshot>>
    /\ UNCHANGED <<connVars, regVars>>

\* a loop that selects before it tests len(handles): reflect.Select on no
\* cases never returns
DrainReturnAfterSelect ==
    /\ Alive
    /\ drainPc = "running"
    /\ Len(handles) = 0
    /\ lastSelect # NoSelect
    /\ drainPc' = "returned"
    /\ UNCHANGED <<results, snapshot, handles, cases, finishedQueries,
                   finishedHandles, lastSelect>>
    /\ UNCHANGED <<connVars, regVars, chanVars, crash>>

\* line 118 with no handle left, line 148
DrainReturn ==
    /\ Alive
    /\ drainPc = "running"
    /\ Len(handles) = 0
    /\ drainPc' = "returned"
    /\ UNCHANGED <<results, snapshot, handles, cases, finishedQueries,
                   finishedHandles, lastSelect>>
    /\ UNCHANGED <<connVars, regVars, chanVars, crash>>

\* ------------------------------------------------ unsynchronized access
\* No statement of conn.go takes a lock.  A caller goroutine enters the
\* map statement of registerQuery (line 156) or removeQuery (line 160);
\* the statement completes with RegisterQuery or RemoveQuery.
BeginWrite(op, han) ==
    /\ Alive
    /\ made
    /\ mapWrite = NoWrite
    /\ op = "registerQuery" => nextRecv <= MaxRecv
    /\ mapWrite' = [op |-> op, handle |-> han]
    /\ UNCHANGED <<execs, queries, regAfterClose, nextRecv>>
    /\ UNCHANGED <<connVars, chanVars, drainVars, crash>>

EndWrite ==
    \/ mapWrite.op = "registerQuery" /\ RegisterQuery(mapWrite.handle)
    \/ mapWrite.op = "removeQuery" /\ RemoveQuery(mapWrite.handle)

\* lines 106-110: len(vc.queries) is read and the slices are allocated;
\* snapshot holds the mapping that len() measured
DrainAllBegin ==
    /\ Alive
    /\ made
    /\ drainPc \in {"idle", "returned"}
    /\ drainPc' = "snapshotting"
    /\ snapshot' = queries
    /\ handles' = <<>>
    /\ cases' = <<>>
    /\ finishedQueries' = <<>>
    /\ finishedHandles' = <<>>
    /\ lastSelect' = NoSelect
    /\ UNCHANGED results
    /\ UNCHANGED <<connVars, regVars, chanVars, crash>>

\* lines 112-116: the range over vc.queries.  When the mapping was written
\* since line 106, or is being written, the runtime may stop the process
\* (concurrent map iteration and map write); when the range meets more
\* entries than len() counted the index at line 113 is out of range, when
\* it meets fewer the select gets zero-valued cases: the process stops.
DrainAllRange(order) ==
    /\ Alive
    /\ drainPc = "snapshotting"
    /\ \/ /\ Len(order) = Cardinality(Registered(snapshot))
          /\ drainPc' = "running"
          /\ snapshot' = queries
          /\ handles' = order
          /\ cases' = [i \in 1..Len(order) |-> queries[order[i]]]
          /\ crash' = crash
       \/ /\ mapWrite # NoWrite \/ queries # snapshot
          /\ crash' = "mapRace"
          /\ UNCHANGED <<drainPc, snapshot, handles, cases>>
    /\ UNCHANGED <<results, finishedQueries, finishedHandles, lastSelect>>
    /\ UNCHANGED <<connVars, regVars, chanVars>>

\* line 129 read while a caller is inside a map statement: the lookup
\* either proceeds (DrainSelect) or the runtime stops the process
\* (concurrent map read and map write)
DrainSelectRaced(chosen) ==
    /\ Alive
    /\ drainPc = "running"
    /\ chosen \in 1..Len(cases)
    /\ Ready(cases[chosen])
    /\ mapWrite # NoWrite
    /\ crash' = "mapRace"
    /\ UNCHANGED <<connVars, regVars, chanVars, drainVars>>

Next ==
    \/ \E o \in OpenOutcomes : OpenConn(o)
    \/ \E reader \in {"nil", "tcp", "other"} : NewVoltConn(reader)
    \/ \E streamErr \in BOOLEAN : Close(streamErr)
    \/ Prepare
    \/ \E h \in Handles, c \in ExecChans : RegisterExec(h, c)
    \/ \E h \in Handles : RegisterQuery(h)
    \/ \E h \in Handles : RemoveQuery(h)
Spec == Init /\ [][Next]_vars

\* the connection as a successful OpenConn leaves it
DrainInit ==
    \E f \in {<<1, 7, 1, "v6">>} :
        LET o == [resolve |-> "ok", dial |-> "ok", login |-> "ok",
                  write |-> "ok", read |-> "ok",
                  reply |-> readLoginResponse(f)]
        IN  /\ made = TRUE
            /\ vc = newVoltConn("tcp", "tcp", o.reply)
            /\ execs = EmptyExecs
            /\ queries = EmptyQueries
            /\ sock = "open"
            /\ tcpCloseCalls = 0
            /\ closeCalls = 0
            /\ listenerStarts = 1
            /\ leaked = 0
            /\ openLog = o
            /\ openRet = OpenConnReturns(o)
            /\ closeRet = "none"
            /\ prepareRet = NoPrepare
            /\ regAfterClose = "none"
            /\ mapWrite = NoWrite
            /\ crash = "none"
            /\ nextRecv = 1
            /\ chan = [r \in Receivers |-> "pending"]
            /\ results = [r \in Receivers |-> [rows |-> "unset", err |-> "nil"]]
            /\ drainPc = "idle"
            /\ snapshot = EmptyQueries
            /\ handles = <<>>
            /\ cases = <<>>
            /\ finishedQueries = <<>>
            /\ finishedHandles = <<>>
            /\ lastSelect = NoSelect

DrainNext ==
    \/ \E h \in Handles : RemoveQuery(h)
    \/ \E h \in Handles : RegisterQuery(h)
    \/ \E r \in Receivers, p \in Payloads : Deliver(r, p)
    \/ \E r \in Receivers : CloseChannel(r)
    \/ \E order \in Orders(Registered(queries)) : DrainAll(order)
    \/ \E chosen \in 1..MaxHandle : DrainSelect(chosen)
    \/ DrainReturn
DrainSpec == DrainInit /\ [][DrainNext]_vars

\* The goroutine running DrainAll keeps being scheduled, and the listener
\* completes every query still pending (a value or a close).
ListenerCompletes(r) ==
    \/ \E p \in Payloads : Deliver(r, p)
    \/ chan[r] = "pending" /\ CloseChannel(r)
LiveSpec ==
    /\ DrainSpec
    /\ WF_vars(\E chosen \in 1..MaxHandle : DrainSelect(chosen))
    /\ WF_vars(DrainReturn)
    /\ \A r \in Receivers : WF_vars(ListenerCompletes(r))

\* The drain with Close called on the connection.  Close closes the TCP
\* stream and nothing else (lines 63-73); the listener reads from that
\* stream, so it delivers nothing once the stream is closed, and the
\* source says nothing of what it does with the channels then: it may
\* close them, and is not bound to.
DeliverWhileOpen(r, p) == sock = "open" /\ Deliver(r, p)
ListenerCompletesWhileOpen(r) == sock = "open" /\ ListenerCompletes(r)
TeardownNext ==
    \/ \E h \in Handles : RegisterQuery(h)
    \/ \E r \in Receivers, p \in Payloads : DeliverWhileOpen(r, p)
    \/ \E r \in Receivers : CloseChannel(r)
    \/ \E streamErr \in BOOLEAN : Close(streamErr)
    \/ \E order \in Orders(Registered(queries)) : DrainAll(order)
    \/ \E chosen \in 1..MaxHandle : DrainSelect(chosen)
    \/ DrainReturn
TeardownSpec == DrainInit /\ [][TeardownNext]_vars
TeardownLive ==
    /\ TeardownSpec
    /\ WF_vars(\E chosen \in 1..MaxHandle : DrainSelect(chosen))
    /\ WF_vars(DrainReturn)
    /\ \A r \in Receivers : WF_vars(ListenerCompletesWhileOpen(r))

\* The drain with the map statements of the callers taking time.
RaceNext ==
    \/ \E op \in {"registerQuery", "removeQuery"}, h \in Handles :
          BeginWrite(op, h)
    \/ EndWrite
    \/ \E r \in Receivers, p \in Payloads : Deliver(r, p)
    \/ \E r \in Receivers : CloseChannel(r)
    \/ DrainAllBegin
    \/ \E order \in Orders(Registered(queries)) : DrainAllRange(order)
    \/ \E chosen \in 1..MaxHandle : DrainSelect(chosen)
    \/ \E chosen \in 1..MaxHandle : DrainSelectRaced(chosen)
    \/ DrainReturn
RaceSpec == DrainInit /\ [][RaceNext]_vars

\* The registry operations and the start of a drain on an open connection
\* whose listener has not answered yet.
RegistryNext ==
    \/ \E h \in Handles, c \in ExecChans : RegisterExec(h, c)
    \/ \E h \in Handles : RegisterQuery(h)
    \/ \E h \in Handles : RemoveQuery(h)
    \/ \E order \in Orders(Registered(queries)) : DrainAll(order)
    \/ DrainReturn
RegistrySpec == DrainInit /\ [][RegistryNext]_vars

\* ================================================================ claims
SeqRange(q) == { q[i] : i \in 1..Len(q) }
AllWaitingReady == \A i \in 1..Len(cases) : Ready(cases[i])
ClosedCalled == closeCalls > 0

\* C1: when DrainAll returns, its output has exactly one entry per handle
\* that was registered when it was called: as many entries as handles, the
\* selected handles are exactly the registered ones, none twice.
DrainReturnsEachHandleOnce ==
    drainPc = "returned" =>
        /\ Len(finishedQueries) = Cardinality(Registered(snapshot))
        /\ Len(finishedHandles) = Len(finishedQueries)
        /\ SeqRange(finishedHandles) = Registered(snapshot)
        /\ \A i, j \in 1..Len(finishedHandles) :
              i # j => finishedHandles[i] # finishedHandles[j]

\* C1 witness: a drain over two handles returned, the completion of the
\* handle registered second having been selected first.
DrainOfTwoReturned ==
    /\ drainPc = "returned"
    /\ Cardinality(Registered(snapshot)) = 2
    /\ Len(finishedQueries) = 2
    /\ finishedQueries[1] > finishedQueries[2]

\* C2: once every receiver a running DrainAll still waits on has a value
\* or is closed, DrainAll eventually returns.
DrainAllEventuallyReturns ==
    (drainPc = "running" /\ AllWaitingReady) ~> (drainPc = "returned")

\* C3: when a running DrainAll selects the channel of a query of its
\* snapshot and finds it closed without a value, the process does not
\* panic and that query is appended to the output with a non-nil error;
\* and a closed channel in the wait set can always be selected (DrainAll
\* does not hang on it).
ClosedChannelYieldsErrorEntry ==
    /\ (lastSelect.recv # 0 /\ ~lastSelect.ok) =>
            /\ crash = "none"
            /\ Len(finishedQueries) > 0
            /\ finishedQueries[Len(finishedQueries)] = lastSelect.recv
            /\ results[lastSelect.recv].err # "nil"
    /\ \A i \in 1..Len(cases) :
          (Alive /\ drainPc = "running" /\ chan[cases[i]] = "closed") =>
              ENABLED DrainSelect(i)

\* C4: a Prepare made after Close has been called returns the
\* connection-closed error.
PrepareAfterCloseFails ==
    prepareRet.afterClose => prepareRet.ret = "error"

\* C5: after Close has returned, the connection is Closed: isOpen is
\* false and the reader and writer references are released.
CloseLeavesConnClosed ==
    ClosedCalled =>
        /\ ~vc.isOpen
        /\ vc.reader = "nil"
        /\ vc.writer = "nil"

\* C6: over any sequence of Close calls the transport stream is closed at
\* most once.
TransportClosedOnce == tcpCloseCalls <= 1

\* C7: Close never panics, whatever reader the connection was built with.
CloseNeverCrashes == crash # "typeAssertion"

\* C8: after a successful OpenConn the connection holds the connectionData
\* decoded from the login reply.
ConnHoldsSessionInfo ==
    openRet = "conn" => vc.connData = openLog.reply

\* a step of the last OpenConn failed
OpenStepFailed ==
    \/ openLog.resolve = "fail"
    \/ openLog.dial = "fail"
    \/ openLog.write = "fail"
    \/ openLog.read = "fail"

\* C9: when address resolution, the dial, the login frame write or the
\* login response read fails, OpenConn returns an error, no connection is
\* produced and no listener is started.
FailedOpenYieldsNoConn ==
    OpenStepFailed =>
        /\ openRet = "error"
        /\ ~made
        /\ listenerStarts = 0

\* C10: a registry operation made after Close has returned leaves both
\* registry mappings unchanged.
RegistryFrozenAfterClose == regAfterClose # "changed"
\* the queries a registry mapping holds
QueriesOf(m) == { m[h] : h \in Registered(m) }

\* C11: a query that DrainAll's snapshot does not hold (so any query
\* registered after the snapshot was taken) is neither in the wait set of
\* that drain nor in its output.
LateQueryNotInDrain ==
    drainPc \in {"running", "returned"} =>
        \A r \in Receivers :
            r \notin QueriesOf(snapshot) =>
                /\ r \notin SeqRange(cases)
                /\ r \notin SeqRange(finishedQueries)

\* C12: once DrainAll has returned, no query it returned is still
\* registered under the handle it was selected for.
DrainedEntriesRemoved ==
    drainPc = "returned" =>
        \A i \in 1..Len(finishedQueries) :
            queries[finishedHandles[i]] # finishedQueries[i]

\* C15: every entry DrainAll finalizes is the query its snapshot held
\* under the selected handle, and no selection finds the entry missing.
DrainFinalizesSnapshotQuery ==
    /\ crash # "nilQuery"
    /\ \A i \in 1..Len(finishedQueries) :
          finishedQueries[i] = snapshot[finishedHandles[i]]
\* C14: a DrainAll whose snapshot holds no query performs no select, can
\* return at once whatever the channels hold, and returns an empty slice.
EmptyDrainReturnsAtOnce ==
    (drainPc \in {"running", "returned"} /\ Registered(snapshot) = {}) =>
        /\ finishedQueries = <<>>
        /\ lastSelect = NoSelect
        /\ (drainPc = "running" /\ Alive) =>
              /\ ENABLED DrainReturn
              /\ \A chosen \in 1..MaxHandle : ~ENABLED DrainSelect(chosen)

EmptyDrainReturned ==
    /\ drainPc = "returned"
    /\ Registered(snapshot) = {}
    /\ finishedQueries = <<>>
\* C16: when the select hands DrainAll a value that is not a driver.Rows,
\* the query the value was delivered for carries an error and no rows.
WrongShapeRecordsError ==
    (lastSelect.ok /\ lastSelect.val \in {"notRows", "notInterface"}) =>
        /\ results[lastSelect.recv].err # "nil"
        /\ results[lastSelect.recv].rows # "rows"
\* C17: the result state of a query is written by one setter call only:
\* no query has been written by both setError and setRows.
QuerySetOnce ==
    \A r \in Receivers :
        results[r].err = "nil" \/ results[r].rows = "unset"
\* the last selection met a closed channel or a payload that is no rows
SelectedFailure ==
    /\ lastSelect.handle # 0
    /\ ~lastSelect.ok \/ lastSelect.val # "rows"

\* C18: a closed channel or a wrong-shaped payload on one handle is
\* recorded as an error in that handle's own entry, in no entry of
\* another handle, and DrainAll does not fail.
DrainFailuresIsolated ==
    LET n == Len(finishedQueries)
    IN  SelectedFailure =>
            /\ crash = "none"
            /\ n > 0
            /\ finishedHandles[n] = lastSelect.handle
            /\ results[finishedQueries[n]].err # "nil"
            /\ \A i \in 1..(n - 1) : finishedQueries[i] # finishedQueries[n]
\* the entries of mapping m other than that of handle h are those of n
OthersUnchanged(m, n, h) == \A g \in Handles \ {h} : n[g] = m[g]

\* C19: a registry operation changes the entry of its own handle in its
\* own mapping and nothing else (registerQuery overwrites, removeQuery of
\* an absent handle changes nothing), and a DrainAll that starts
\* afterwards snapshots the registry as the operations left it.
RegistryFrame ==
    [][ /\ \A h \in Handles :
              RegisterQuery(h) =>
                  /\ queries'[h] = nextRecv
                  /\ OthersUnchanged(queries, queries', h)
                  /\ execs' = execs
        /\ \A h \in Handles :
              RemoveQuery(h) =>
                  /\ queries'[h] = NilQuery
                  /\ OthersUnchanged(queries, queries', h)
                  /\ queries[h] = NilQuery => queries' = queries
                  /\ execs' = execs
        /\ \A h \in Handles, c \in ExecChans :
              RegisterExec(h, c) =>
                  /\ execs'[h] = c
                  /\ OthersUnchanged(execs, execs', h)
                  /\ queries' = queries
        /\ \A order \in Orders(Registered(queries)) :
              DrainAll(order) =>
                  /\ snapshot' = queries
                  /\ SeqRange(handles') = Registered(queries)
                  /\ \A i \in 1..Len(cases') : cases'[i] = queries[handles'[i]]
      ]_vars

\* handle 1 registered twice, an exec registered, and a drain started on it
OverwrittenQuerySnapshotted ==
    /\ queries[1] = 2
    /\ queries[2] = NilQuery
    /\ execs[1] # NilChan
    /\ drainPc = "running"
    /\ snapshot = queries
    /\ cases = <<2>>
\* C13: accesses to the queries mapping are serialized: a caller is never
\* inside a map statement while DrainAll iterates over the mapping, and
\* the runtime never meets a read concurrent with a write.
RegistryAccessSerialized ==
    /\ ~(mapWrite # NoWrite /\ drainPc = "snapshotting")
    /\ crash # "mapRace"
\* C20: once the transport is closed, every receiver a running DrainAll
\* still waits for eventually has its channel closed, and the DrainAll
\* eventually returns.
TransportEndUnblocksDrain ==
    /\ \A r \in Receivers :
          (sock = "closed" /\ r \in SeqRange(cases) /\ chan[r] = "pending")
              ~> (chan[r] = "closed")
    /\ (sock = "closed" /\ drainPc = "running") ~> (drainPc = "returned")
====
